---------------------------- MODULE Spec2Model ----------------------------
(***************************************************************************)
(* Reader of the HP-90EPC serial multimeter: the connection Manager        *)
(* (reader/manager.go), the reconnect/read loop RunLoop with its stream    *)
(* synchronizer (reader/reader.go) and the frame decoder decodeFrame.      *)
(*                                                                         *)
(* Time is a discrete clock `now` counted in seconds; the zero time.Time   *)
(* ("never") is 0 and the clock starts at 1.  A goroutine launched by      *)
(* Manager.Start is a loop instance l \in LoopIds with a program counter   *)
(* pc[l]; a step of a goroutine ends where it touches shared state (the     *)
(* context, the port, LatestBuffer, the logger, Manager.status).           *)
(*                                                                         *)
(* Left out: the diagnostic counters of RunLoop (frames, zeroReads,        *)
(* resyncs, lastLog) and its log line, which nothing reads.                *)
(*                                                                         *)
(* Specifications: Spec, ClockSpec and LiveSpec are the Manager with its   *)
(* read loops; StreamSpec is the byte loop alone on richer byte streams;   *)
(* FrameSpec is decodeFrame and the publication of one completed frame;    *)
(* BufferSpec is model.LatestBuffer (config.go) under concurrent Set and   *)
(* Get; LiveApiSpec adds the /api/live handler (server/server.go);         *)
(* LoggerSpec is logging.Logger (logging/logger.go) with the reader loop's *)
(* Push against the handlers' Start and Stop.                              *)
(***************************************************************************)
EXTENDS Integers, Sequences, FiniteSets, TLC

(* ------------------------------ bounds -------------------------------- *)

\* Number of Start/SetPort calls, i.e. of goroutines ever launched.
MaxLoops == 2

\* The same under ClockSpec, where the clock runs.
MaxClockLoops == 1

\* Last tick of the clock.
MaxTime == 5

\* Frames in a train of frames given to the byte loop alone.
MaxFrames == 3

\* Goroutines calling LatestBuffer.Set (the read loops) and LatestBuffer.Get
\* (the HTTP handlers), and the number of Set calls in all.
MaxSetters == 2
MaxGetters == 2
MaxSets == 3

\* Start calls, and requests of /api/live, where the requests are looked at.
MaxLiveLoops == 1
MaxRequests == 1

\* Log files one run creates, and calls of Logger.Push, where the logger
\* is looked at.
MaxLogFiles == 2
MaxPushes == 2

\* The `stale` main gives NewManager: 3*time.Second.
MainStale == 3

\* Program constant: the default staleness threshold of NewManager, seconds.
DefaultStale == 3

LoopIds == 1 .. (IF MaxLoops > MaxClockLoops THEN MaxLoops ELSE MaxClockLoops)

\* Arguments `stale` given to NewManager (seconds); non-positive => default.
StaleArgs == {-1, 0, 2}

Setters == 1..MaxSetters
Requests == 1..MaxRequests
Getters == 1..MaxGetters

LogFiles == 1..MaxLogFiles

\* The config's default log interval, seconds (log_interval_ms 1000).
MainLogInterval == 1

\* Log intervals given to NewLogger (seconds); 0 = every frame.
LogIntervals == {0, 1}

\* Targets (port, baud) given to Start / SetPort.
Targets == {<<"COM3", 2400>>, <<"COM4", 9600>>}

\* Error values: nil, context.Canceled, and an I/O error of the serial port.
ErrNil == "nil"
ErrCanceled == "context canceled"
ErrIO == "serial: i/o error"

VARIABLES
    now,        \* the wall clock, seconds
    dev,        \* the serial device: "absent", "silent" or "sending"
    staleArg,   \* the argument NewManager was given
    staleAfter, \* Manager.staleAfter
    status,     \* Manager.status
    running,    \* Manager.running
    cancel,     \* Manager.cancel: 0 = nil, l = cancels the context of loop l
    launched,   \* number of goroutines launched so far
    latest,     \* model.LatestBuffer: Nil or the last Measurement Set
    pc,         \* pc[l]: where goroutine l stands
    ctxDone,    \* ctxDone[l]: the context of loop l is cancelled
    target,     \* target[l]: the (port, baud) loop l was started with
    handle,     \* handle[l]: loop l holds an open serial port
    idx,        \* idx[l]: the synchronizer cursor
    frame,      \* frame[l]: the 14-byte scratch buffer
    tmp,        \* tmp[l]: the bytes of the last read not yet examined
    ret,        \* ret[l]: what RunLoop returned to the goroutine
    acceptedAt, \* history: the time of the last onFrameOK call (0 = none)
    input,      \* the byte loop alone: the bytes the port delivers
    fed,        \* ... the number of bytes the byte loop has examined
    sidx,       \* ... its cursor idx
    sframe,     \* ... its scratch buffer frame
    emitted,    \* ... history: the frames it completed, and at which byte
    mu,         \* LatestBuffer.mu: the writer holding it (0 = none), readers
    setter,     \* setter[c]: where caller c of LatestBuffer.Set stands
    getter,     \* getter[g]: where caller g of LatestBuffer.Get stands
    completed,  \* history: the arguments of the Set calls that returned
    live,       \* live[r]: request r of /api/live: its locals and response
    logger,     \* logging.Logger: active, file, csv, lastWrite, interval
    files,      \* the log files: created, closed, their rows, the writers
    ctl,        \* the HTTP handler calling Logger.Start / Logger.Stop
    pusher      \* the reader loop inside Logger.Push

vars == <<now, dev, staleArg, staleAfter, status, running, cancel, launched,
          latest, pc, ctxDone, target, handle, idx, frame, tmp, ret,
          acceptedAt, input, fed, sidx, sframe, emitted,
          mu, setter, getter, completed, live,
          logger, files, ctl, pusher>>

mgrVars == <<staleArg, staleAfter, status, running, cancel, launched>>
loopVars == <<pc, ctxDone, target, handle, idx, frame, tmp, ret>>
syncVars == <<idx, frame, tmp>>
histVars == <<acceptedAt>>
streamVars == <<input, fed, sidx, sframe, emitted>>
bufVars == <<mu, setter, getter, completed>>
apiVars == <<live>>
logVars == <<logger, files, ctl, pusher>>
sideVars == <<streamVars, bufVars, apiVars, logVars>>

Nil == [nil |-> TRUE]

(* ------------------------- bytes and bit fields ------------------------ *)

\* b & (1 << k) != 0
Bit(b, k) == (b \div (2^k)) % 2 = 1

\* b & 0xF0 and b & 0x0F
HighNibble(b) == (b \div 16) * 16
LowNibble(b) == b % 16

(* ---------------------------- frame decoder ---------------------------- *)

\* No measurement (a nil *model.Measurement) and no value (a nil *float64).
NoValue == [absent |-> TRUE]

\* parseDigit: the 7-segment pattern, top bit cleared, to its digit or -1.
parseDigit(b) ==
    LET p == b % 128
    IN CASE p = 125 -> 0    \* 0x7d
         [] p = 5   -> 1    \* 0x05
         [] p = 91  -> 2    \* 0x5b
         [] p = 31  -> 3    \* 0x1f
         [] p = 39  -> 4    \* 0x27
         [] p = 62  -> 5    \* 0x3e
         [] p = 126 -> 6    \* 0x7e
         [] p = 21  -> 7    \* 0x15
         [] p = 127 -> 8    \* 0x7f
         [] p = 63  -> 9    \* 0x3f
         [] OTHER   -> -1

DigitChar == <<"0", "1", "2", "3", "4", "5", "6", "7", "8", "9">>

HexChar == <<"0", "1", "2", "3", "4", "5", "6", "7", "8", "9",
             "A", "B", "C", "D", "E", "F">>

\* fmt.Fprintf(&sb, "%02X", x)
Hex2(x) == HexChar[(x \div 16) + 1] \o HexChar[(x % 16) + 1]

\* The bytes as space-separated hex.
RECURSIVE RawHex(_)
RawHex(b) ==
    IF Len(b) = 0 THEN ""
    ELSE IF Len(b) = 1 THEN Hex2(b[1])
    ELSE RawHex(SubSeq(b, 1, Len(b) - 1)) \o " " \o Hex2(b[Len(b)])

\* decodeFrame.  b is the Go slice, so Go's b[i] is b[i+1] here.  The float
\* value sign*intval/div, scaled by every prefix flag that is set, is kept
\* exactly as mant * 10^exp (float64 rounding is not modelled).
decodeFrame(b) ==
    IF Len(b) # 14 THEN Nil
    ELSE
    LET B(i) == b[i + 1]
        sign == IF Bit(B(1), 3) THEN -1 ELSE 1
        digitByte(i) == LowNibble(B(1 + 2*i)) * 16 + LowNibble(B(1 + 2*i + 1))
        digits == [i \in 0..3 |-> parseDigit(digitByte(i))]
        numeric == \A i \in 0..3 : digits[i] >= 0
        intval == IF numeric
                  THEN ((digits[0]*10 + digits[1])*10 + digits[2])*10 + digits[3]
                  ELSE 0
        divExp == CASE Bit(B(3), 3) -> 3
                    [] Bit(B(5), 3) -> 2
                    [] Bit(B(7), 3) -> 1
                    [] OTHER        -> 0
        isNano  == Bit(B(9), 2)
        isMicro == Bit(B(9), 3)
        isKilo  == Bit(B(9), 1)
        isMilli == Bit(B(10), 3)
        isMega  == Bit(B(10), 1)
        exp == 0 - divExp
               - (IF isNano THEN 9 ELSE 0)
               - (IF isMicro THEN 6 ELSE 0)
               - (IF isMilli THEN 3 ELSE 0)
               + (IF isKilo THEN 3 ELSE 0)
               + (IF isMega THEN 6 ELSE 0)
        isAC == Bit(B(0), 3)
        isDC == Bit(B(0), 2)
        auto == Bit(B(0), 1)
        isPercent == Bit(B(10), 2)
        isFarad == Bit(B(11), 3)
        isOhm == Bit(B(11), 2)
        isRel == Bit(B(11), 1)
        isHold == Bit(B(11), 0)
        isAmp == Bit(B(12), 3)
        isVolt == Bit(B(12), 2)
        isHz == Bit(B(12), 1)
        lowBatt == Bit(B(12), 0)
        isCelsius == Bit(B(13), 2)
        mode0 == IF isAC THEN "AC" ELSE IF isDC THEN "DC" ELSE ""
        unit == CASE isCelsius -> "°C"
                  [] isPercent -> "%"
                  [] isFarad   -> "F"
                  [] isOhm     -> "Ohm"
                  [] isAmp     -> "A"
                  [] isVolt    -> "V"
                  [] isHz      -> "Hz"
                  [] OTHER     -> ""
        mode == IF isCelsius THEN "" ELSE mode0
        prefix == CASE isMega  -> "M"
                    [] isKilo  -> "k"
                    [] isMilli -> "m"
                    [] isMicro -> "µ"
                    [] isNano  -> "n"
                    [] OTHER   -> ""
        fullUnit0 == IF unit # "" /\ unit # "%" /\ unit # "°C"
                     THEN prefix \o unit ELSE unit
        fullUnit == IF fullUnit0 = "MV" THEN "mV" ELSE fullUnit0
        c(i) == DigitChar[digits[i] + 1]
        s == CASE Bit(B(3), 3) -> c(0) \o "." \o c(1) \o c(2) \o c(3)
               [] Bit(B(5), 3) -> c(0) \o c(1) \o "." \o c(2) \o c(3)
               [] Bit(B(7), 3) -> c(0) \o c(1) \o c(2) \o "." \o c(3)
               [] OTHER        -> c(0) \o c(1) \o c(2) \o c(3)
        valueStr == IF numeric
                    THEN (IF sign < 0 THEN "-" \o s ELSE s)
                    ELSE "????"
    IN [Value    |-> IF numeric THEN [mant |-> sign * intval, exp |-> exp]
                     ELSE NoValue,
        ValueStr |-> valueStr,
        Unit     |-> fullUnit,
        Mode     |-> mode,
        Auto     |-> auto,
        Hold     |-> isHold,
        Rel      |-> isRel,
        LowBatt  |-> lowBatt,
        RawHex   |-> RawHex(b)]

(* ------------------------- stream synchronizer ------------------------- *)

\* make([]byte, 14)
ZeroFrame == [i \in 1..14 |-> 0]

\* A synchronizer that skips a mismatching byte and keeps its cursor.
SyncByteKeepsCursor(i, f, b) ==
    LET want == ((i + 1) * 16) % 256
    IN IF HighNibble(b) = want
       THEN [idx |-> i + 1, frame |-> [f EXCEPT ![i + 1] = b],
             complete |-> (i + 1 = 14)]
       ELSE [idx |-> i, frame |-> f, complete |-> FALSE]

\* A synchronizer that drops every mismatching byte, a frame-start byte
\* included.
SyncByteNoRestart(i, f, b) ==
    LET want == ((i + 1) * 16) % 256
    IN IF HighNibble(b) = want
       THEN [idx |-> i + 1, frame |-> [f EXCEPT ![i + 1] = b],
             complete |-> (i + 1 = 14)]
       ELSE [idx |-> 0, frame |-> f, complete |-> FALSE]

\* A reader of fixed 14-byte blocks: every byte is stored and counted, its
\* tag is not looked at.
SyncByteNoResync(i, f, b) ==
    [idx |-> i + 1, frame |-> [f EXCEPT ![i + 1] = b],
     complete |-> (i + 1 = 14)]

\* One byte b of the stream against the cursor: the new cursor, the new
\* scratch buffer and whether the frame is complete (idx == 14; the code
\* then publishes and sets idx = 0).
SyncByte(i, f, b) ==
    LET want == ((i + 1) * 16) % 256
    IN IF HighNibble(b) = want
       THEN [idx |-> i + 1, frame |-> [f EXCEPT ![i + 1] = b],
             complete |-> (i + 1 = 14)]
       ELSE IF HighNibble(b) = 16
       THEN [idx |-> 1, frame |-> [f EXCEPT ![1] = b], complete |-> FALSE]
       ELSE [idx |-> 0, frame |-> f, complete |-> FALSE]

\* The byte loop `for i := 0; i < n; i++` from cursor i over the bytes bs, up
\* to the byte that completes a frame: where it stops and the bytes left.
RECURSIVE Scan(_, _, _)
Scan(i, f, bs) ==
    IF bs = <<>> THEN [idx |-> i, frame |-> f, complete |-> FALSE, rest |-> <<>>]
    ELSE LET r == SyncByte(i, f, Head(bs))
         IN IF r.complete
            THEN [idx |-> r.idx, frame |-> r.frame, complete |-> TRUE,
                  rest |-> Tail(bs)]
            ELSE Scan(r.idx, r.frame, Tail(bs))

\* A well-formed frame: digits 1,2,3,4, point at the tenths, DC, Volt.
\* 14 20 35 45 5B 61 7F 8A 97 A0 B0 C0 D4 E0
VoltFrame == <<20, 32, 53, 69, 91, 97, 127, 138, 151, 160, 176, 192, 212, 224>>

\* What one Read may deliver: a whole frame or one of its two halves.  (A
\* second half at cursor 0 and a first half at cursor 7 are the two kinds of
\* tag mismatch.)
Chunks == {VoltFrame,
           SubSeq(VoltFrame, 1, 7),
           SubSeq(VoltFrame, 8, 14)}

(* ------------------------------- Manager ------------------------------- *)

DevStates == {"absent", "silent", "sending"}

\* Status{}
ZeroStatus == [Port |-> "", Baud |-> 0, Connected |-> FALSE,
               LastFrameAt |-> 0, LastError |-> ""]

\* NewManager: the staleAfter it stores for the argument `stale`.
NewManager(stale) == IF stale <= 0 THEN DefaultStale ELSE stale

\* No byte loop is looked at on its own.
StreamIdle ==
    /\ input = [bytes |-> <<>>, clean |-> <<>>, at |-> 0]
    /\ fed = 0
    /\ sidx = 0
    /\ sframe = ZeroFrame
    /\ emitted = <<>>

\* &model.LatestBuffer{} with nobody calling it.
BufferIdle ==
    /\ mu = [writer |-> 0, readers |-> {}]
    /\ setter = [c \in Setters |-> [pc |-> "idle", m |-> Nil]]
    /\ getter = [g \in Getters |-> [pc |-> "idle", seen |-> 0, res |-> Nil]]
    /\ completed = <<>>

\* NewLogger(dir, interval): not active, no file, no writer, lastWrite zero.
NewLogger(interval) ==
    [active |-> FALSE, file |-> 0, csv |-> 0, lastWrite |-> 0,
     interval |-> interval]

\* No log file exists, no handler and no Push is under way.
NoLogCalls ==
    /\ files = [created |-> 0, closed |-> {}, failed |-> {},
                buffered |-> [f \in LogFiles |-> 0],
                rows |-> [f \in LogFiles |-> 0]]
    /\ ctl = [pc |-> "idle", f |-> 0]
    /\ pusher = [pc |-> "idle", calls |-> 0]

\* The logger as main makes it, with nobody calling it.
LoggerIdle ==
    /\ logger = NewLogger(MainLogInterval)
    /\ NoLogCalls

\* No request of /api/live has arrived.
LiveIdle ==
    live = [r \in Requests |-> [pc |-> "idle", st |-> ZeroStatus, m |-> Nil,
                                resp |-> Nil]]

\* The state after NewManager(latest, logger, stale).
ManagerInit(stale) ==
    /\ now = 1
    /\ dev = "absent"
    /\ staleArg = stale
    /\ staleAfter = NewManager(stale)
    /\ status = ZeroStatus
    /\ running = FALSE
    /\ cancel = 0
    /\ launched = 0
    /\ latest = Nil
    /\ pc = [l \in LoopIds |-> "none"]
    /\ ctxDone = [l \in LoopIds |-> FALSE]
    /\ target = [l \in LoopIds |-> <<"", 0>>]
    /\ handle = [l \in LoopIds |-> FALSE]
    /\ idx = [l \in LoopIds |-> 0]
    /\ frame = [l \in LoopIds |-> ZeroFrame]
    /\ tmp = [l \in LoopIds |-> <<>>]
    /\ ret = [l \in LoopIds |-> ErrNil]
    /\ acceptedAt = 0

\* The program after NewManager(latest, logger, stale), nothing else going on.
InitWith(stale) ==
    /\ ManagerInit(stale)
    /\ StreamIdle
    /\ BufferIdle
    /\ LiveIdle
    /\ LoggerIdle

\* A GetStatus that returns the stored flag (Start and Stop store false).
GetStatusStored == status

\* A GetStatus that does not look at the age of the last frame.
GetStatusNoStaleness ==
    [status EXCEPT !.Connected = (status.LastFrameAt # 0
                                  /\ status.LastError = "")]

\* GetStatus at time `now`: the snapshot of m.status with Connected derived.
\* (The snapshot and time.Since are taken at the same tick of the clock.)
GetStatus ==
    LET st == status
    IN [st EXCEPT !.Connected = (st.LastFrameAt # 0
                                 /\ now - st.LastFrameAt <= staleAfter
                                 /\ st.LastError = "")]

\* A Start that replaces m.cancel without calling the old one.
StartKeepsOldContext(port, baud) ==
    /\ launched + 1 \in LoopIds
    /\ cancel' = launched + 1
    /\ running' = TRUE
    /\ status' = [status EXCEPT !.Port = port, !.Baud = baud,
                                !.Connected = FALSE, !.LastError = ""]
    /\ launched' = launched + 1
    /\ pc' = [pc EXCEPT ![launched + 1] = "top"]
    /\ target' = [target EXCEPT ![launched + 1] = <<port, baud>>]
    /\ UNCHANGED <<now, dev, staleArg, staleAfter, latest, handle, ctxDone,
                   syncVars, ret, histVars, sideVars>>

\* Start: cancel the running loop, make a new context, reset the status
\* fields it resets, and launch the goroutine (loop launched + 1).
Start(port, baud) ==
    /\ launched + 1 \in LoopIds
    /\ ctxDone' = IF running /\ cancel # 0
                  THEN [ctxDone EXCEPT ![cancel] = TRUE]
                  ELSE ctxDone
    /\ cancel' = launched + 1
    /\ running' = TRUE
    /\ status' = [status EXCEPT !.Port = port, !.Baud = baud,
                                !.Connected = FALSE, !.LastError = ""]
    /\ launched' = launched + 1
    /\ pc' = [pc EXCEPT ![launched + 1] = "top"]
    /\ target' = [target EXCEPT ![launched + 1] = <<port, baud>>]
    /\ UNCHANGED <<now, dev, staleArg, staleAfter, latest, handle,
                   syncVars, ret, histVars, sideVars>>

SetPort(port, baud) == Start(port, baud)

Stop ==
    /\ ctxDone' = IF cancel # 0
                  THEN [ctxDone EXCEPT ![cancel] = TRUE]
                  ELSE ctxDone
    /\ running' = FALSE
    /\ status' = [status EXCEPT !.Connected = FALSE]
    /\ UNCHANGED <<now, dev, staleArg, staleAfter, cancel, launched, latest,
                   pc, target, handle, syncVars, ret, histVars, sideVars>>

(* ------------------------------- RunLoop ------------------------------- *)

\* `return ctx.Err()` out of RunLoop: the goroutine holds the result.
Return(l, e) ==
    /\ pc' = [pc EXCEPT ![l] = "ret"]
    /\ ret' = [ret EXCEPT ![l] = e]

\* Top of the reconnect loop: the non-blocking check of ctx.Done().
LoopTop(l) ==
    /\ pc[l] = "top"
    /\ IF ctxDone[l]
       THEN Return(l, ErrCanceled)
       ELSE pc' = [pc EXCEPT ![l] = "open"] /\ UNCHANGED ret
    /\ UNCHANGED <<now, dev, mgrVars, latest, ctxDone, target, handle,
                   syncVars, histVars, sideVars>>

\* serial.OpenPort succeeds: the read loop starts with a fresh frame buffer.
OpenOK(l) ==
    /\ pc[l] = "open"
    /\ dev # "absent"
    /\ handle' = [handle EXCEPT ![l] = TRUE]
    /\ idx' = [idx EXCEPT ![l] = 0]
    /\ frame' = [frame EXCEPT ![l] = ZeroFrame]
    /\ tmp' = [tmp EXCEPT ![l] = <<>>]
    /\ pc' = [pc EXCEPT ![l] = "rtop"]
    /\ UNCHANGED <<now, dev, mgrVars, latest, ctxDone, target, ret,
                   histVars, sideVars>>

\* serial.OpenPort fails (no such port, busy, ...): on to the 600 ms wait.
OpenFail(l) ==
    /\ pc[l] = "open"
    /\ pc' = [pc EXCEPT ![l] = "wait600"]
    /\ UNCHANGED <<now, dev, mgrVars, latest, ctxDone, target, handle,
                   syncVars, ret, histVars, sideVars>>

\* A retry that neither waits for the context nor checks it: straight back
\* to OpenPort.
Wait600IgnoresCancel(l) ==
    /\ pc[l] = "wait600"
    /\ pc' = [pc EXCEPT ![l] = "open"]
    /\ UNCHANGED <<now, dev, mgrVars, latest, ctxDone, target, handle,
                   syncVars, ret, histVars, sideVars>>

\* select { <-ctx.Done(): return; <-time.After(600ms): continue }
Wait600(l) ==
    /\ pc[l] = "wait600"
    /\ \/ ctxDone[l] /\ Return(l, ErrCanceled)
       \/ pc' = [pc EXCEPT ![l] = "top"] /\ UNCHANGED ret
    /\ UNCHANGED <<now, dev, mgrVars, latest, ctxDone, target, handle,
                   syncVars, histVars, sideVars>>

\* The closure returning with no deferred s.Close().
LeaveWithoutClose(l) ==
    /\ handle' = handle
    /\ idx' = [idx EXCEPT ![l] = 0]
    /\ frame' = [frame EXCEPT ![l] = ZeroFrame]
    /\ tmp' = [tmp EXCEPT ![l] = <<>>]
    /\ pc' = [pc EXCEPT ![l] = "after"]

\* The closure `func() error { defer s.Close(); ... }` returns: the deferred
\* s.Close() runs and the closure's locals (idx, frame, tmp) are gone.  The
\* error it returns is assigned to `err`, which RunLoop never reads again.
CloseAndLeave(l) ==
    /\ handle' = [handle EXCEPT ![l] = FALSE]
    /\ idx' = [idx EXCEPT ![l] = 0]
    /\ frame' = [frame EXCEPT ![l] = ZeroFrame]
    /\ tmp' = [tmp EXCEPT ![l] = <<>>]
    /\ pc' = [pc EXCEPT ![l] = "after"]

\* Top of the read loop: on ctx.Done() the closure returns ctx.Err().
ReadTop(l) ==
    /\ pc[l] = "rtop"
    /\ IF ctxDone[l]
       THEN CloseAndLeave(l)
       ELSE /\ pc' = [pc EXCEPT ![l] = "read"]
            /\ UNCHANGED <<handle, syncVars>>
    /\ UNCHANGED <<now, dev, mgrVars, latest, ctxDone, target, ret,
                   histVars, sideVars>>

\* The byte loop from cursor i over bs, up to the next completed frame: on a
\* complete frame decode it and go publish, else back to the read loop.
ScanOn(l, i, bs) ==
    LET r == Scan(i, frame[l], bs)
    IN /\ idx' = [idx EXCEPT ![l] = r.idx]
       /\ frame' = [frame EXCEPT ![l] = r.frame]
       /\ tmp' = [tmp EXCEPT ![l] = r.rest]
       /\ pc' = [pc EXCEPT ![l] = IF r.complete THEN "set" ELSE "rtop"]

\* A decoder that gives no Measurement for a frame it cannot read as a
\* number.
DecodedNumericOnly(l) ==
    LET m == decodeFrame(frame[l])
    IN IF m = Nil THEN Nil
       ELSE IF m.Value = NoValue THEN Nil ELSE m

\* A decoder whose value ignores the decimal point.
DecodedIgnoresPoint(l) ==
    LET m == decodeFrame(frame[l])
    IN IF m = Nil THEN Nil
       ELSE IF m.Value = NoValue THEN m
       ELSE [m EXCEPT !.Value = [mant |-> m.Value.mant, exp |-> 0]]

\* A decoder that leaves AC / DC on a temperature.
DecodedKeepsMode(l) ==
    LET m == decodeFrame(frame[l])
        b0 == frame[l][1]
    IN IF m = Nil THEN Nil
       ELSE [m EXCEPT !.Mode = IF Bit(b0, 3) THEN "AC"
                               ELSE IF Bit(b0, 2) THEN "DC" ELSE ""]

\* m := decodeFrame(frame), for the frame loop l has just completed.
Decoded(l) == decodeFrame(frame[l])

\* s.Read returns an error: the closure returns it, the deferred s.Close()
\* runs.  (The device is gone.)
ReadErr(l) ==
    /\ pc[l] = "read"
    /\ dev = "absent"
    /\ CloseAndLeave(l)
    /\ UNCHANGED <<now, dev, mgrVars, latest, ctxDone, target, ret,
                   histVars, sideVars>>

\* A loop that takes a read of no bytes for a break in the stream and
\* drops its partial frame.
ReadZeroResets(l) ==
    /\ pc[l] = "read"
    /\ dev = "sending"
    /\ pc' = [pc EXCEPT ![l] = "rtop"]
    /\ idx' = [idx EXCEPT ![l] = 0]
    /\ UNCHANGED <<now, dev, mgrVars, latest, ctxDone, target, handle,
                   frame, tmp, ret, histVars, sideVars>>

\* s.Read returns n == 0 and no error.
ReadZero(l) ==
    /\ pc[l] = "read"
    /\ dev = "sending"
    /\ pc' = [pc EXCEPT ![l] = "rtop"]
    /\ UNCHANGED <<now, dev, mgrVars, latest, ctxDone, target, handle,
                   syncVars, ret, histVars, sideVars>>

\* s.Read returns the bytes c.  With ReadTimeout 0 the call blocks as long as
\* the line is silent: the step is not enabled then.
ReadBytes(l, c) ==
    /\ pc[l] = "read"
    /\ dev = "sending"
    /\ ScanOn(l, idx[l], c)
    /\ UNCHANGED <<now, dev, mgrVars, latest, ctxDone, target, handle,
                   ret, histVars, sideVars>>

\* A loop that goes on to Push and the callback without latest.Set(m).
LatestSetSkipped(l) ==
    /\ pc[l] = "set"
    /\ pc' = [pc EXCEPT ![l] = "push"]
    /\ UNCHANGED <<now, dev, mgrVars, latest, ctxDone, target, handle,
                   syncVars, ret, histVars, sideVars>>

\* if m != nil { latest.Set(m) ...
LatestSet(l) ==
    /\ pc[l] = "set"
    /\ IF Decoded(l) # Nil
       THEN /\ latest' = Decoded(l)
            /\ pc' = [pc EXCEPT ![l] = "push"]
            /\ UNCHANGED syncVars
       ELSE /\ ScanOn(l, 0, tmp[l])
            /\ UNCHANGED latest
    /\ UNCHANGED <<now, dev, mgrVars, ctxDone, target, handle, ret,
                   histVars, sideVars>>

\* ... logger.Push(m) ...
LoggerPush(l) ==
    /\ pc[l] = "push"
    /\ pc' = [pc EXCEPT ![l] = "ok"]
    /\ UNCHANGED <<now, dev, mgrVars, latest, ctxDone, target, handle,
                   syncVars, ret, histVars, sideVars>>

\* ... onFrameOK() }: the callback of Manager.Start stamps the status under
\* the lock; then idx = 0 and the byte loop goes on.
OnFrameOK(l) ==
    /\ pc[l] = "ok"
    /\ status' = [status EXCEPT !.LastFrameAt = now, !.LastError = ""]
    /\ acceptedAt' = now
    /\ ScanOn(l, 0, tmp[l])
    /\ UNCHANGED <<now, dev, staleArg, staleAfter, running, cancel, launched,
                   latest, ctxDone, target, handle, ret, sideVars>>

\* After the closure: if ctx.Err() != nil return, else the 400 ms wait.
AfterRead(l) ==
    /\ pc[l] = "after"
    /\ IF ctxDone[l]
       THEN Return(l, ErrCanceled)
       ELSE pc' = [pc EXCEPT ![l] = "wait400"] /\ UNCHANGED ret
    /\ UNCHANGED <<now, dev, mgrVars, latest, ctxDone, target, handle,
                   syncVars, histVars, sideVars>>

\* select { <-ctx.Done(): return; <-time.After(400ms): }
Wait400(l) ==
    /\ pc[l] = "wait400"
    /\ \/ ctxDone[l] /\ Return(l, ErrCanceled)
       \/ pc' = [pc EXCEPT ![l] = "top"] /\ UNCHANGED ret
    /\ UNCHANGED <<now, dev, mgrVars, latest, ctxDone, target, handle,
                   syncVars, histVars, sideVars>>

\* A goroutine that records whatever RunLoop returned, context.Canceled
\* included.
GoExitRecordsCanceled(l) ==
    /\ pc[l] = "ret"
    /\ status' = IF ret[l] # ErrNil
                 THEN [status EXCEPT !.LastError = ret[l]]
                 ELSE status
    /\ pc' = [pc EXCEPT ![l] = "done"]
    /\ UNCHANGED <<now, dev, staleArg, staleAfter, running, cancel, launched,
                   latest, ctxDone, target, handle, syncVars, ret,
                   histVars, sideVars>>

\* The goroutine of Start after RunLoop returned: an error other than
\* context.Canceled becomes the status's LastError.
GoExit(l) ==
    /\ pc[l] = "ret"
    /\ status' = IF ret[l] # ErrNil /\ ret[l] # ErrCanceled
                 THEN [status EXCEPT !.LastError = ret[l]]
                 ELSE status
    /\ pc' = [pc EXCEPT ![l] = "done"]
    /\ UNCHANGED <<now, dev, staleArg, staleAfter, running, cancel, launched,
                   latest, ctxDone, target, handle, syncVars, ret,
                   histVars, sideVars>>

\* One step of loop l.
LoopStep(l) ==
    \/ LoopTop(l) \/ OpenOK(l) \/ OpenFail(l) \/ Wait600(l)
    \/ ReadTop(l) \/ ReadErr(l) \/ ReadZero(l)
    \/ (\E c \in Chunks : ReadBytes(l, c))
    \/ LatestSet(l) \/ LoggerPush(l) \/ OnFrameOK(l)
    \/ AfterRead(l) \/ Wait400(l) \/ GoExit(l)

(* ----------------------------- environment ----------------------------- *)

\* A second passes.
Tick ==
    /\ now < MaxTime
    /\ now' = now + 1
    /\ UNCHANGED <<dev, mgrVars, latest, loopVars, histVars, sideVars>>

\* The meter is plugged in, unplugged, starts or stops sending.
DeviceChange(s) ==
    /\ s # dev
    /\ dev' = s
    /\ UNCHANGED <<now, mgrVars, latest, loopVars, histVars, sideVars>>

\* The steps of the goroutines, and of the device.
LoopNext ==
    \/ \E l \in LoopIds : LoopTop(l)
    \/ \E l \in LoopIds : OpenOK(l)
    \/ \E l \in LoopIds : OpenFail(l)
    \/ \E l \in LoopIds : Wait600(l)
    \/ \E l \in LoopIds : ReadTop(l)
    \/ \E l \in LoopIds : ReadErr(l)
    \/ \E l \in LoopIds : ReadZero(l)
    \/ \E l \in LoopIds : \E c \in Chunks : ReadBytes(l, c)
    \/ \E l \in LoopIds : LatestSet(l)
    \/ \E l \in LoopIds : LoggerPush(l)
    \/ \E l \in LoopIds : OnFrameOK(l)
    \/ \E l \in LoopIds : AfterRead(l)
    \/ \E l \in LoopIds : Wait400(l)
    \/ \E l \in LoopIds : GoExit(l)
    \/ \E s \in DevStates : DeviceChange(s)

\* The program as main wires it (NewManager with 3 s), all within one tick
\* of the clock: up to MaxLoops calls of Start / SetPort.
Init == InitWith(MainStale)

Next ==
    \/ launched < MaxLoops /\ \E t \in Targets : Start(t[1], t[2])
    \/ launched < MaxLoops /\ \E t \in Targets : SetPort(t[1], t[2])
    \/ Stop
    \/ LoopNext

Spec == Init /\ [][Next]_vars

\* NewManager with any argument and the clock running: up to MaxClockLoops
\* calls of Start / SetPort.
ClockInit == \E stale \in StaleArgs : InitWith(stale)

ClockNext ==
    \/ launched < MaxClockLoops /\ \E t \in Targets : Start(t[1], t[2])
    \/ launched < MaxClockLoops /\ \E t \in Targets : SetPort(t[1], t[2])
    \/ Stop
    \/ LoopNext
    \/ Tick

ClockSpec == ClockInit /\ [][ClockNext]_vars

\* Spec with the Go scheduler's fairness: a goroutine that can take a step
\* takes one, and a blocked s.Read returns once the device sends or fails
\* (strong fairness: a step enabled again and again is taken).  Nothing
\* obliges the device to send or to fail.
LiveSpec == Spec /\ \A l \in LoopIds : SF_vars(LoopStep(l))

(* --------------------------- the byte loop alone ----------------------- *)

\* A second well-formed frame; no byte of it equals VoltFrame's byte at the
\* same position.  1E 2D 3C 4B 5A 69 78 87 96 A5 B4 C3 D2 E1
OtherFrame == [i \in 1..14 |-> 16 * i + 15 - i]

Frames == <<VoltFrame, OtherFrame>>

\* n well-formed frames one after the other, VoltFrame and OtherFrame in
\* turn, beginning with Frames[k].
RECURSIVE Train(_, _)
Train(n, k) ==
    IF n = 0 THEN <<>> ELSE Frames[k] \o Train(n - 1, 3 - k)

\* Byte values a byte of the line may be replaced by or a prefix may end
\* with: every high nibble, the 14 tags and the untagged 0x0_ and 0xF_.
OddBytes == {16 * t + 10 : t \in 0..15}

\* Trains of 1..MaxFrames frames with the byte at one position replaced.
CorruptedInputs ==
    {[bytes |-> [Train(n, k) EXCEPT ![p] = b], clean |-> Train(n, k),
      at |-> p] :
        <<n, k, p, b>> \in {q \in (1..MaxFrames) \X (1..2) \X
                                 (1..(14 * MaxFrames)) \X OddBytes :
                               q[3] <= 14 * q[1]}}

\* What the line may have carried before a frame: nothing, the first bytes
\* of a frame (cursor 1..13), and either followed by one odd byte.
Prefixes ==
    LET heads == {SubSeq(Frames[k], 1, n) : k \in 1..2, n \in 0..13}
    IN heads \cup {Append(h, b) : h \in heads, b \in OddBytes}

\* A prefix and then one complete well-formed frame.
PrefixedInputs ==
    {[bytes |-> h \o Frames[k], clean |-> <<>>, at |-> 0] :
        h \in Prefixes, k \in 1..2}

\* The byte loop of one open port, by itself: frame and idx as the closure
\* creates them, and the bytes the reads are going to deliver.
StreamInit ==
    /\ ManagerInit(MainStale)
    /\ input \in CorruptedInputs \cup PrefixedInputs
    /\ fed = 0
    /\ sidx = 0
    /\ sframe = ZeroFrame
    /\ emitted = <<>>
    /\ BufferIdle
    /\ LiveIdle
    /\ LoggerIdle

\* A byte loop that publishes a complete frame and leaves the cursor at 14.
ByteLoopNoReset ==
    /\ fed < Len(input.bytes)
    /\ LET i == IF sidx > 13 THEN 13 ELSE sidx
           r == SyncByte(i, sframe, input.bytes[fed + 1])
       IN /\ fed' = fed + 1
          /\ sframe' = r.frame
          /\ sidx' = r.idx
          /\ emitted' = IF r.complete
                        THEN Append(emitted, [at |-> fed + 1, frame |-> r.frame])
                        ELSE emitted
    /\ UNCHANGED <<now, dev, mgrVars, latest, loopVars, histVars, input,
                   bufVars, apiVars, logVars>>

\* One turn of `for i := 0; i < n; i++`: the next byte against the cursor;
\* a complete frame is decoded and published (decodeFrame returns nil for
\* no 14-byte frame), and idx = 0.
ByteLoop ==
    /\ fed < Len(input.bytes)
    /\ LET r == SyncByte(sidx, sframe, input.bytes[fed + 1])
           m == decodeFrame(r.frame)
       IN /\ fed' = fed + 1
          /\ sframe' = r.frame
          /\ sidx' = IF r.complete THEN 0 ELSE r.idx
          /\ emitted' = IF r.complete /\ m # Nil
                        THEN Append(emitted, [at |-> fed + 1, frame |-> r.frame])
                        ELSE emitted
    /\ UNCHANGED <<now, dev, mgrVars, latest, loopVars, histVars, input,
                   bufVars, apiVars, logVars>>

StreamNext == ByteLoop

StreamSpec == StreamInit /\ [][StreamNext]_vars

(* ---------------------------- LatestBuffer ----------------------------- *)

\* The Measurements passed to Set are distinct objects (each decodeFrame
\* allocates one): the n-th call of Set passes Measurement(n).
Measurement(n) == [ptr |-> n]

SetsCalled ==
    Len(completed) + Cardinality({c \in Setters : setter[c].pc # "idle"})

\* b.Set(m) is called.
SetCall(c) ==
    /\ setter[c].pc = "idle"
    /\ SetsCalled < MaxSets
    /\ setter' = [setter EXCEPT ![c] = [pc |-> "lock",
                                        m |-> Measurement(SetsCalled + 1)]]
    /\ UNCHANGED <<now, dev, mgrVars, latest, loopVars, histVars, streamVars,
                   apiVars, logVars,
                   mu, getter, completed>>

\* b.mu.Lock(): nobody else holds the mutex, for writing or for reading.
SetLock(c) ==
    /\ setter[c].pc = "lock"
    /\ mu.writer = 0
    /\ mu.readers = {}
    /\ mu' = [mu EXCEPT !.writer = c]
    /\ setter' = [setter EXCEPT ![c].pc = "write"]
    /\ UNCHANGED <<now, dev, mgrVars, latest, loopVars, histVars, streamVars,
                   apiVars, logVars,
                   getter, completed>>

\* b.latest = m
SetWrite(c) ==
    /\ setter[c].pc = "write"
    /\ latest' = setter[c].m
    /\ setter' = [setter EXCEPT ![c].pc = "unlock"]
    /\ UNCHANGED <<now, dev, mgrVars, loopVars, histVars, streamVars,
                   apiVars, logVars,
                   mu, getter, completed>>

\* The deferred b.mu.Unlock(), and Set returns.
SetUnlock(c) ==
    /\ setter[c].pc = "unlock"
    /\ mu' = [mu EXCEPT !.writer = 0]
    /\ completed' = Append(completed, setter[c].m)
    /\ setter' = [setter EXCEPT ![c] = [pc |-> "idle", m |-> Nil]]
    /\ UNCHANGED <<now, dev, mgrVars, latest, loopVars, histVars, streamVars,
                   apiVars, logVars,
                   getter>>

\* b.Get() is called (the result of an earlier call is dropped).
GetCall(g) ==
    /\ getter[g].pc \in {"idle", "returned"}
    /\ getter' = [getter EXCEPT ![g] = [pc |-> "rlock",
                                        seen |-> Len(completed),
                                        res |-> Nil]]
    /\ UNCHANGED <<now, dev, mgrVars, latest, loopVars, histVars, streamVars,
                   apiVars, logVars,
                   mu, setter, completed>>

\* A Get that does not take the mutex.
GetNoRLock(g) ==
    /\ getter[g].pc = "rlock"
    /\ mu' = [mu EXCEPT !.readers = @ \cup {g}]
    /\ getter' = [getter EXCEPT ![g].pc = "read"]
    /\ UNCHANGED <<now, dev, mgrVars, latest, loopVars, histVars, streamVars,
                   apiVars, logVars,
                   setter, completed>>

\* b.mu.RLock(): no writer holds the mutex.
GetRLock(g) ==
    /\ getter[g].pc = "rlock"
    /\ mu.writer = 0
    /\ mu' = [mu EXCEPT !.readers = @ \cup {g}]
    /\ getter' = [getter EXCEPT ![g].pc = "read"]
    /\ UNCHANGED <<now, dev, mgrVars, latest, loopVars, histVars, streamVars,
                   apiVars, logVars,
                   setter, completed>>

\* The operand of `return b.latest` is evaluated.
GetRead(g) ==
    /\ getter[g].pc = "read"
    /\ getter' = [getter EXCEPT ![g].res = latest, ![g].pc = "runlock"]
    /\ UNCHANGED <<now, dev, mgrVars, latest, loopVars, histVars, streamVars,
                   apiVars, logVars,
                   mu, setter, completed>>

\* The deferred b.mu.RUnlock(), and Get returns res.
GetRUnlock(g) ==
    /\ getter[g].pc = "runlock"
    /\ mu' = [mu EXCEPT !.readers = @ \ {g}]
    /\ getter' = [getter EXCEPT ![g].pc = "returned"]
    /\ UNCHANGED <<now, dev, mgrVars, latest, loopVars, histVars, streamVars,
                   apiVars, logVars,
                   setter, completed>>

\* A LatestBuffer and its callers, by themselves.
BufferInit == InitWith(MainStale)

BufferNext ==
    \/ \E c \in Setters : SetCall(c)
    \/ \E c \in Setters : SetLock(c)
    \/ \E c \in Setters : SetWrite(c)
    \/ \E c \in Setters : SetUnlock(c)
    \/ \E g \in Getters : GetCall(g)
    \/ \E g \in Getters : GetRLock(g)
    \/ \E g \in Getters : GetRead(g)
    \/ \E g \in Getters : GetRUnlock(g)

BufferSpec == BufferInit /\ [][BufferNext]_vars

(* ------------------------------ /api/live ------------------------------ *)

\* w.WriteHeader(http.StatusNoContent), and sendJSON(w, m).
NoContent == [code |-> 204, body |-> Nil]
SendJSON(m) == [code |-> 200, body |-> m]

\* A handler that does not look at the reader's status.
LiveStatusUnchecked(r) ==
    /\ live[r].pc = "idle"
    /\ live' = [live EXCEPT ![r].st = GetStatus, ![r].pc = "latest"]
    /\ UNCHANGED <<now, dev, mgrVars, latest, loopVars, histVars, streamVars,
                   bufVars, logVars>>

\* st := app.GetReaderStatus(); if !st.Connected { 204; return }
LiveStatus(r) ==
    /\ live[r].pc = "idle"
    /\ live' = IF ~GetStatus.Connected
               THEN [live EXCEPT ![r].st = GetStatus, ![r].resp = NoContent,
                                 ![r].pc = "done"]
               ELSE [live EXCEPT ![r].st = GetStatus, ![r].pc = "latest"]
    /\ UNCHANGED <<now, dev, mgrVars, latest, loopVars, histVars, streamVars,
                   bufVars, logVars>>

\* m := app.GetLatest(); if m == nil { 204; return }; sendJSON(w, m)
LiveLatest(r) ==
    /\ live[r].pc = "latest"
    /\ live' = [live EXCEPT ![r].m = latest,
                            ![r].resp = IF latest = Nil THEN NoContent
                                        ELSE SendJSON(latest),
                            ![r].pc = "done"]
    /\ UNCHANGED <<now, dev, mgrVars, latest, loopVars, histVars, streamVars,
                   bufVars, logVars>>

\* The program as main wires it, with requests of /api/live coming in.
LiveInit == InitWith(MainStale)

LiveNext ==
    \/ launched < MaxLiveLoops /\ \E t \in Targets : Start(t[1], t[2])
    \/ Stop
    \/ LoopNext
    \/ \E r \in Requests : LiveStatus(r)
    \/ \E r \in Requests : LiveLatest(r)

LiveApiSpec == LiveInit /\ [][LiveNext]_vars

(* ------------------------ one frame, once complete --------------------- *)

\* The frame with the low nibbles n: byte i carries the tag (i+1)<<4.
FrameOf(n) == [i \in 1..14 |-> 16 * i + n[i]]

\* The two nibbles of a 7-segment pattern p, the top bit of the digit byte
\* being the flag t (the sign or a decimal point).
PatternHi(p, t) == (IF t THEN 8 ELSE 0) + (p % 128) \div 16
PatternLo(p) == p % 16

\* Digit patterns put on the display: 0, 1, 2, 3, 4 and a blank digit.
Patterns == {125, 5, 91, 31, 39, 0}

\* The patterns of 1, 2, 3, 4; the same with the second digit blank; and
\* with an L (0x68) for the third.
Digits1234 == <<5, 91, 31, 39>>
Digits1x34 == <<5, 0, 31, 39>>
Digits12L4 == <<5, 91, 104, 39>>

\* A frame showing the patterns q with the flag nibbles of bytes 0 and 9..13
\* as given; neg is the sign bit and dp the set of decimal-point bits
\* (1000, 100, 10) that are on.
MakeFrame(q, neg, dp, b0, b9, b10, b11, b12, b13) ==
    FrameOf(<<b0,
              PatternHi(q[1], neg), PatternLo(q[1]),
              PatternHi(q[2], 1000 \in dp), PatternLo(q[2]),
              PatternHi(q[3], 100 \in dp), PatternLo(q[3]),
              PatternHi(q[4], 10 \in dp), PatternLo(q[4]),
              b9, b10, b11, b12, b13>>)

\* DC, Volt; every display of four patterns, sign and decimal points.
DigitInputs ==
    {MakeFrame(q, neg, dp, 4, 0, 0, 0, 4, 0) :
        q \in Patterns \X Patterns \X Patterns \X Patterns,
        neg \in BOOLEAN, dp \in SUBSET {1000, 100, 10}}

\* 1234 DC; every combination of the bits of bytes 9 and 10 (the prefix
\* flags and percent), with no unit, Hz, V or A, Ohm or not, Celsius or not.
PrefixInputs ==
    {MakeFrame(Digits1234, FALSE, {}, 4, b9, b10, b11, b12, b13) :
        b9 \in 0..15, b10 \in 0..15, b11 \in {0, 4}, b12 \in {0, 2, 4, 8},
        b13 \in {0, 4}}

\* No prefix; every combination of the unit and flag bits of bytes 11 and
\* 12, percent, Celsius, and the mode bits, with and without a digit that
\* is not one.
UnitInputs ==
    {MakeFrame(q, FALSE, {}, b0, 0, b10, b11, b12, b13) :
        q \in {Digits1234, Digits1x34, Digits12L4}, b0 \in {0, 2, 4, 8, 12},
        b10 \in {0, 4}, b11 \in 0..15, b12 \in 0..15, b13 \in {0, 4}}

\* Loop 1, started on COM3, has opened the port and its byte loop has just
\* completed a frame (idx == 14): it is about to decode and publish it.
FrameInit ==
    /\ now = 1
    /\ dev = "sending"
    /\ staleArg = MainStale
    /\ staleAfter = NewManager(MainStale)
    /\ status = [ZeroStatus EXCEPT !.Port = "COM3", !.Baud = 2400]
    /\ running = TRUE
    /\ cancel = 1
    /\ launched = 1
    /\ latest = Nil
    /\ pc = [l \in LoopIds |-> IF l = 1 THEN "set" ELSE "none"]
    /\ ctxDone = [l \in LoopIds |-> FALSE]
    /\ target = [l \in LoopIds |-> IF l = 1 THEN <<"COM3", 2400>>
                                   ELSE <<"", 0>>]
    /\ handle = [l \in LoopIds |-> l = 1]
    /\ idx = [l \in LoopIds |-> IF l = 1 THEN 14 ELSE 0]
    /\ \E f \in DigitInputs \cup PrefixInputs \cup UnitInputs :
          frame = [l \in LoopIds |-> IF l = 1 THEN f ELSE ZeroFrame]
    /\ tmp = [l \in LoopIds |-> <<>>]
    /\ ret = [l \in LoopIds |-> ErrNil]
    /\ acceptedAt = 0
    /\ StreamIdle
    /\ BufferIdle
    /\ LiveIdle
    /\ LoggerIdle

\* decodeFrame and the publication of its result, up to the next read.
FrameNext ==
    \/ \E l \in LoopIds : LatestSet(l)
    \/ \E l \in LoopIds : LoggerPush(l)
    \/ \E l \in LoopIds : OnFrameOK(l)

FrameSpec == FrameInit /\ [][FrameNext]_vars

(* ---------------------------- logging.Logger --------------------------- *)

\* The process lives: no nil dereference has panicked.
Alive == pusher.pc # "panic"

\* csv.Writer.Flush on the writer w of file w: the buffered rows reach the
\* file; on a closed file the write fails, the rows are dropped and the
\* bufio.Writer keeps the error (Flush's result is not looked at).
Flush(fs, w) ==
    IF w \in fs.failed THEN fs
    ELSE IF w \in fs.closed
    THEN [fs EXCEPT !.failed = @ \cup {w}, !.buffered[w] = 0]
    ELSE [fs EXCEPT !.rows[w] = @ + fs.buffered[w], !.buffered[w] = 0]

\* Logger.Start up to the header: `if l.active return nil`, MkdirAll,
\* os.Create, csv.NewWriter, the header written and flushed.  (A failing
\* MkdirAll or Create returns with nothing changed.)
LogStartCall ==
    /\ Alive
    /\ ctl.pc = "idle"
    /\ ~logger.active
    /\ files.created < MaxLogFiles
    /\ files' = [files EXCEPT !.created = @ + 1]
    /\ ctl' = [pc |-> "assign", f |-> files.created + 1]
    /\ UNCHANGED <<now, dev, mgrVars, latest, loopVars, histVars, streamVars,
                   bufVars, apiVars, logger, pusher>>

\* l.file = f; l.csv = w; l.currentName = name; l.lastWrite = time.Time{}
LogStartAssign ==
    /\ Alive
    /\ ctl.pc = "assign"
    /\ logger' = [logger EXCEPT !.file = ctl.f, !.csv = ctl.f,
                                !.lastWrite = 0]
    /\ ctl' = [ctl EXCEPT !.pc = "activate"]
    /\ UNCHANGED <<now, dev, mgrVars, latest, loopVars, histVars, streamVars,
                   bufVars, apiVars, files, pusher>>

\* l.active = true; return nil
LogStartActive ==
    /\ Alive
    /\ ctl.pc = "activate"
    /\ logger' = [logger EXCEPT !.active = TRUE]
    /\ ctl' = [pc |-> "idle", f |-> 0]
    /\ UNCHANGED <<now, dev, mgrVars, latest, loopVars, histVars, streamVars,
                   bufVars, apiVars, files, pusher>>

\* Logger.Stop: `if !l.active return nil`; l.active = false
LogStopCall ==
    /\ Alive
    /\ ctl.pc = "idle"
    /\ logger.active
    /\ logger' = [logger EXCEPT !.active = FALSE]
    /\ ctl' = [ctl EXCEPT !.pc = "sflush"]
    /\ UNCHANGED <<now, dev, mgrVars, latest, loopVars, histVars, streamVars,
                   bufVars, apiVars, files, pusher>>

\* if l.csv != nil { l.csv.Flush() }
LogStopFlush ==
    /\ Alive
    /\ ctl.pc = "sflush"
    /\ files' = IF logger.csv # 0 THEN Flush(files, logger.csv) ELSE files
    /\ ctl' = [ctl EXCEPT !.pc = "sclose"]
    /\ UNCHANGED <<now, dev, mgrVars, latest, loopVars, histVars, streamVars,
                   bufVars, apiVars, logger, pusher>>

\* if l.file != nil { if err := l.file.Close(); err != nil { return err } }
LogStopClose ==
    /\ Alive
    /\ ctl.pc = "sclose"
    /\ IF logger.file # 0 /\ logger.file \in files.closed
       THEN ctl' = [pc |-> "idle", f |-> 0] /\ UNCHANGED files
       ELSE /\ files' = IF logger.file # 0
                        THEN [files EXCEPT !.closed = @ \cup {logger.file}]
                        ELSE files
            /\ ctl' = [ctl EXCEPT !.pc = "snil"]
    /\ UNCHANGED <<now, dev, mgrVars, latest, loopVars, histVars, streamVars,
                   bufVars, apiVars, logger, pusher>>

\* l.csv = nil; l.file = nil; return nil
LogStopNil ==
    /\ Alive
    /\ ctl.pc = "snil"
    /\ logger' = [logger EXCEPT !.csv = 0, !.file = 0]
    /\ ctl' = [pc |-> "idle", f |-> 0]
    /\ UNCHANGED <<now, dev, mgrVars, latest, loopVars, histVars, streamVars,
                   bufVars, apiVars, files, pusher>>

\* Logger.Push(m), m non-nil: if !l.active || l.csv == nil { return }
PushCall ==
    /\ pusher.pc = "idle"
    /\ pusher.calls < MaxPushes
    /\ pusher' = [pc |-> IF ~logger.active \/ logger.csv = 0
                         THEN "idle" ELSE "interval",
                  calls |-> pusher.calls + 1]
    /\ UNCHANGED <<now, dev, mgrVars, latest, loopVars, histVars, streamVars,
                   bufVars, apiVars, logger, files, ctl>>

\* if l.interval > 0 && !l.lastWrite.IsZero() &&
\*    time.Since(l.lastWrite) < l.interval { return }
PushInterval ==
    /\ pusher.pc = "interval"
    /\ pusher' = [pusher EXCEPT !.pc =
                      IF /\ logger.interval > 0
                         /\ logger.lastWrite # 0
                         /\ now - logger.lastWrite < logger.interval
                      THEN "idle" ELSE "write"]
    /\ UNCHANGED <<now, dev, mgrVars, latest, loopVars, histVars, streamVars,
                   bufVars, apiVars, logger, files, ctl>>

\* if err := l.csv.Write(record); err != nil { l.active = false; return }
\* A nil l.csv panics; a writer whose Flush failed returns its error; any
\* other writer takes the row into its buffer.
PushWrite ==
    /\ pusher.pc = "write"
    /\ IF logger.csv = 0
       THEN /\ pusher' = [pusher EXCEPT !.pc = "panic"]
            /\ UNCHANGED <<logger, files>>
       ELSE IF logger.csv \in files.failed
       THEN /\ logger' = [logger EXCEPT !.active = FALSE]
            /\ pusher' = [pusher EXCEPT !.pc = "idle"]
            /\ UNCHANGED files
       ELSE /\ files' = [files EXCEPT !.buffered[logger.csv] = @ + 1]
            /\ pusher' = [pusher EXCEPT !.pc = "flush"]
            /\ UNCHANGED logger
    /\ UNCHANGED <<now, dev, mgrVars, latest, loopVars, histVars, streamVars,
                   bufVars, apiVars, ctl>>

\* l.csv.Flush()
PushFlush ==
    /\ pusher.pc = "flush"
    /\ IF logger.csv = 0
       THEN /\ pusher' = [pusher EXCEPT !.pc = "panic"]
            /\ UNCHANGED files
       ELSE /\ files' = Flush(files, logger.csv)
            /\ pusher' = [pusher EXCEPT !.pc = "stamp"]
    /\ UNCHANGED <<now, dev, mgrVars, latest, loopVars, histVars, streamVars,
                   bufVars, apiVars, logger, ctl>>

\* l.lastWrite = time.Now()
PushStamp ==
    /\ pusher.pc = "stamp"
    /\ logger' = [logger EXCEPT !.lastWrite = now]
    /\ pusher' = [pusher EXCEPT !.pc = "idle"]
    /\ UNCHANGED <<now, dev, mgrVars, latest, loopVars, histVars, streamVars,
                   bufVars, apiVars, files, ctl>>

\* The logger as main makes it, with any interval, the handlers of
\* /api/log/start and /api/log/stop and the reader loop's Push, the clock
\* running.
LoggerInit ==
    /\ ManagerInit(MainStale)
    /\ StreamIdle
    /\ BufferIdle
    /\ LiveIdle
    /\ logger \in {NewLogger(i) : i \in LogIntervals}
    /\ NoLogCalls

LoggerNext ==
    \/ LogStartCall \/ LogStartAssign \/ LogStartActive
    \/ LogStopCall \/ LogStopFlush \/ LogStopClose \/ LogStopNil
    \/ PushCall \/ PushInterval \/ PushWrite \/ PushFlush \/ PushStamp
    \/ Alive /\ Tick

LoggerSpec == LoggerInit /\ [][LoggerNext]_vars

(* ------------------------------- claims -------------------------------- *)

\* RunLoop has returned to the goroutine of loop l.
Terminated(l) == pc[l] \in {"ret", "done"}

\* Loop l has been launched and RunLoop has not returned.
Active(l) == pc[l] \notin {"none", "ret", "done"}

\* Loop l is in the Connecting state of RunLoop (backoffs included).
Connecting(l) == pc[l] \in {"top", "open", "wait600", "after", "wait400"}

\* A later Start / SetPort has launched another loop after loop l.
Superseded(l) == pc[l] # "none" /\ l < launched

\* C1: at most one RunLoop instance launched by the Manager is not yet
\* terminated, in every reachable state.
C1_AtMostOneActiveLoop ==
    Cardinality({l \in LoopIds : Active(l)}) <= 1

\* C2: once a later loop has been launched, a superseded loop performs no
\* further LatestBuffer.Set.
C2_NoLateWriter ==
    [][\A l \in LoopIds :
          (pc[l] = "set" /\ pc'[l] = "push") => ~Superseded(l)]_vars

\* C3: after Stop (and no Start since), GetStatus returns connected = false.
C3_StoppedIsDisconnected ==
    ~running => ~GetStatus.Connected

\* C4: right after Start returns, last_error is empty and last_frame_at is
\* the zero value.
C4_StartResetsStatus ==
    [][launched' # launched =>
          (status'.LastError = "" /\ status'.LastFrameAt = 0)]_vars

\* The staleness threshold for the argument NewManager was given: the
\* argument itself, or 3 s for a non-positive one.
Threshold == IF staleArg <= 0 THEN 3 ELSE staleArg

\* C5: at every read time, the connected flag GetStatus returns equals
\* (last_frame_at non-zero /\ now - last_frame_at <= threshold /\ last_error
\* empty), whatever the stored flag is; the threshold is 3 s by default.
C5_ConnectedIsDerived ==
    GetStatus.Connected =
        (/\ status.LastFrameAt # 0
         /\ now - status.LastFrameAt <= Threshold
         /\ status.LastError = "")

\* C5's case: the default threshold, a frame exactly 3 s old, connected.
C5_Witness ==
    /\ staleArg <= 0
    /\ status.LastFrameAt # 0
    /\ now - status.LastFrameAt = 3
    /\ GetStatus.Connected

\* C6: after a frame accepted at time t, a read within the staleness interval
\* of t returns connected = true (absent an error), and a read later than
\* t + threshold returns connected = false.
C6_NoStuckConnected ==
    acceptedAt # 0 =>
        /\ (now - acceptedAt <= staleAfter /\ status.LastError = "")
              => GetStatus.Connected
        /\ (now - acceptedAt > staleAfter) => ~GetStatus.Connected

\* C6's case: frames have stopped for longer than the threshold.
C6_Witness ==
    /\ acceptedAt # 0
    /\ now - acceptedAt > staleAfter
    /\ ~GetStatus.Connected

\* C7: a loop whose context is cancelled eventually reaches Terminated.
C7_CancelTerminates ==
    \A l \in LoopIds : (ctxDone[l] /\ pc[l] # "none") ~> Terminated(l)

\* C8: a loop in Connecting (backoffs included) or Terminated holds no open
\* device handle.
C8_NoHandleLeak ==
    \A l \in LoopIds : (Connecting(l) \/ Terminated(l)) => ~handle[l]

\* C8's case: a loop has left Streaming on a read error and waits to retry.
C8_Witness ==
    \E l \in LoopIds : pc[l] = "wait400" /\ ~handle[l]

\* C9: after a read error of a loop that is not cancelled, while the loop
\* waits its 400 ms, last_error is non-empty and connected is false.
C9_ReadErrorSurfaced ==
    \A l \in LoopIds :
        (pc[l] = "wait400" /\ ~ctxDone[l]) =>
            (GetStatus.LastError # "" /\ ~GetStatus.Connected)

\* C10: after a failed open of a loop that is not cancelled, while the loop
\* waits to retry, last_error is non-empty (and the loop has not terminated).
C10_OpenFailureSurfaced ==
    \A l \in LoopIds :
        (pc[l] = "wait600" /\ ~ctxDone[l]) =>
            (GetStatus.LastError # "" /\ ~Terminated(l))

\* C11: cancellation is not an error.  No step of a cancelled loop, from the
\* cancellation to the return of its goroutine, makes an empty last_error
\* non-empty, and the goroutine's last step (after RunLoop has returned
\* context.Canceled) leaves last_error as it was.
C11_CancelIsNotAnError ==
    [][\A l \in LoopIds :
          (ctxDone[l] /\ pc'[l] # pc[l]) =>
              /\ (status.LastError = "" => status'.LastError = "")
              /\ (pc'[l] = "done" => status'.LastError = status.LastError)]_vars

\* C11's case: a loop cancelled by Stop or by a later Start has terminated,
\* its goroutine has returned, and last_error is empty.
C11_Witness ==
    \E l \in LoopIds :
        /\ ctxDone[l]
        /\ pc[l] = "done"
        /\ ret[l] = ErrCanceled
        /\ status.LastError = ""

\* The bytes bs carry the high-nibble tags 0x10, 0x20, ..., 0xE0 in order.
Tagged(bs) ==
    /\ Len(bs) = 14
    /\ \A i \in 1..14 : HighNibble(bs[i]) = 16 * i

\* The 14 bytes of the line up to and including byte number n.
Last14(n) == SubSeq(input.bytes, n - 13, n)

\* C12: the synchronizer emits a frame only at a byte such that the 14 bytes
\* of the stream ending there carry the tags 0x10..0xE0 in order (nothing
\* between them), and the emitted frame is exactly those 14 bytes.
C12_EmitsOnlyTaggedRuns ==
    \A j \in 1..Len(emitted) :
        /\ emitted[j].at >= 14
        /\ emitted[j].at <= fed
        /\ Tagged(Last14(emitted[j].at))
        /\ emitted[j].frame = Last14(emitted[j].at)

\* C12's case: a frame emitted after a mismatch, i.e. not at a multiple of
\* 14 bytes, and the whole input examined.
C12_Witness ==
    /\ fed = Len(input.bytes)
    /\ \E j \in 1..Len(emitted) : emitted[j].at % 14 # 0

\* The number of frames of the train the input was made of.
TrainLen == Len(input.clean) \div 14

\* The j-th frame of the train, as it was before the replacement.
CleanFrame(j) == SubSeq(input.clean, 14 * (j - 1) + 1, 14 * j)

\* The replaced byte is one of the j-th frame.
Hit(j) == input.at \in (14 * (j - 1) + 1)..(14 * j)

\* The j-th frame has been emitted, unchanged, at its last byte.
EmittedClean(j) ==
    \E i \in 1..Len(emitted) :
        /\ emitted[i].at = 14 * j
        /\ emitted[i].frame = CleanFrame(j)

\* C13: for a train of N well-formed frames with one byte replaced by any
\* byte, every frame without the replaced byte is emitted unchanged once
\* its last byte has been examined, and at least N - 1 frames are emitted
\* in all.
C13_OneByteCostsOneFrame ==
    input.at # 0 =>
        /\ \A j \in 1..TrainLen :
              (14 * j <= fed /\ ~Hit(j)) => EmittedClean(j)
        /\ fed = Len(input.bytes) => Len(emitted) >= TrainLen - 1

\* C13's case: the replaced byte has cost its frame, a frame that is not
\* the last of the train, and all the others have been emitted.
C13_Witness ==
    /\ input.at # 0
    /\ fed = Len(input.bytes)
    /\ Len(emitted) = TrainLen - 1
    /\ \E j \in 1..(TrainLen - 1) : Hit(j) /\ EmittedClean(j + 1)

\* C14: a byte that mismatches the expected tag becomes byte 0 of a new
\* frame (cursor 1) if its high nibble is 0x10, and resets the cursor to 0
\* otherwise; and whatever came before, the 14th byte of a complete
\* well-formed frame makes the synchronizer emit exactly that frame.
C14_ResyncOnFrameStart ==
    [][fed' = fed + 1 =>
          LET b == input.bytes[fed + 1]
              mismatch == HighNibble(b) # 16 * (sidx + 1)
          IN /\ (mismatch /\ HighNibble(b) = 16) =>
                    (sidx' = 1 /\ sframe'[1] = b)
             /\ (mismatch /\ HighNibble(b) # 16) => sidx' = 0
             /\ (fed' >= 14 /\ Tagged(Last14(fed'))) =>
                    emitted' = Append(emitted, [at |-> fed',
                                                frame |-> Last14(fed')])]_vars

\* C14's case: 13 bytes of a frame (cursor 13), then a complete frame, which
\* is the one frame emitted, at its 14th byte.
C14_Witness ==
    /\ input.at = 0
    /\ Len(input.bytes) = 27
    /\ \A i \in 1..13 : HighNibble(input.bytes[i]) = 16 * i
    /\ fed = 27
    /\ emitted = <<[at |-> 27, frame |-> Last14(27)]>>

\* Byte i of the frame f, counted from 0.
FrameByte(f, i) == f[i + 1]

\* Loop l has just Set the Measurement of its frame (and not yet pushed it).
JustSet(l) == pc[l] = "push"

\* The one magnitude prefix of a frame: the first flag set in the order
\* nano, micro, milli, kilo, mega, as a power of ten and a letter.
OnePrefix(f) ==
    CASE Bit(FrameByte(f, 9), 2)  -> [exp |-> -9, letter |-> "n"]
      [] Bit(FrameByte(f, 9), 3)  -> [exp |-> -6, letter |-> "µ"]
      [] Bit(FrameByte(f, 10), 3) -> [exp |-> -3, letter |-> "m"]
      [] Bit(FrameByte(f, 9), 1)  -> [exp |-> 3, letter |-> "k"]
      [] Bit(FrameByte(f, 10), 1) -> [exp |-> 6, letter |-> "M"]
      [] OTHER                    -> [exp |-> 0, letter |-> ""]

\* The divisor of a frame as a power of ten: 3, 2, 1 for the decimal-point
\* bit of byte 3, 5, 7; 0 for none.
PointExp(f) ==
    CASE Bit(FrameByte(f, 3), 3) -> 3
      [] Bit(FrameByte(f, 5), 3) -> 2
      [] Bit(FrameByte(f, 7), 3) -> 1
      [] OTHER                   -> 0

\* The base unit of a frame: the first match in the fixed order.
BaseUnit(f) ==
    CASE Bit(FrameByte(f, 13), 2) -> "°C"
      [] Bit(FrameByte(f, 10), 2) -> "%"
      [] Bit(FrameByte(f, 11), 3) -> "F"
      [] Bit(FrameByte(f, 11), 2) -> "Ohm"
      [] Bit(FrameByte(f, 12), 3) -> "A"
      [] Bit(FrameByte(f, 12), 2) -> "V"
      [] Bit(FrameByte(f, 12), 1) -> "Hz"
      [] OTHER                    -> ""

\* Units that never take a prefix letter.
Bare == {"", "%", "°C"}

\* C15: the decoder applies at most one magnitude prefix: the value of every
\* frame is scaled by the one factor of the first flag set in the order
\* nano > micro > milli > kilo > mega (by 1 if none is set), and the unit
\* carries exactly that flag's letter.
C15_OnePrefixApplied ==
    \A l \in LoopIds :
        JustSet(l) =>
            LET f == frame[l]
                m == latest
            IN /\ (m.Value # NoValue /\ m.Value.mant # 0) =>
                      m.Value.exp = OnePrefix(f).exp - PointExp(f)
               /\ m.Unit = IF BaseUnit(f) \in Bare THEN BaseUnit(f)
                           ELSE OnePrefix(f).letter \o BaseUnit(f)

\* Some prefix flag of the frame f is set.
AnyPrefix(f) ==
    \/ Bit(FrameByte(f, 9), 1) \/ Bit(FrameByte(f, 9), 2)
    \/ Bit(FrameByte(f, 9), 3)
    \/ Bit(FrameByte(f, 10), 1) \/ Bit(FrameByte(f, 10), 3)

\* C16: the base unit of every frame is the first match in the order byte13
\* bit2 (°C), byte10 bit2 (%), byte11 bit3 (F), byte11 bit2 (Ohm), byte12
\* bit3 (A), byte12 bit2 (V), byte12 bit1 (Hz), else empty (the unit is that
\* base unit, after a prefix letter at most); the mode is "" for °C, else
\* "AC" if byte0 bit3 is set, else "DC" if byte0 bit2 is set, else "".
C16_UnitAndMode ==
    \A l \in LoopIds :
        JustSet(l) =>
            LET f == frame[l]
                m == latest
            IN /\ \E p \in {"", "n", "µ", "m", "k", "M"} :
                      m.Unit = p \o BaseUnit(f)
               /\ (BaseUnit(f) \in Bare \/ ~AnyPrefix(f)) =>
                      m.Unit = BaseUnit(f)
               /\ m.Mode = IF BaseUnit(f) = "°C" THEN ""
                           ELSE IF Bit(FrameByte(f, 0), 3) THEN "AC"
                           ELSE IF Bit(FrameByte(f, 0), 2) THEN "DC"
                           ELSE ""

\* C16's case: a frame with the Celsius, Ohm and Volt bits and both mode
\* bits set is published as °C with no mode.
C16_Witness ==
    \E l \in LoopIds :
        /\ JustSet(l)
        /\ Bit(FrameByte(frame[l], 13), 2)
        /\ Bit(FrameByte(frame[l], 11), 2)
        /\ Bit(FrameByte(frame[l], 12), 2)
        /\ Bit(FrameByte(frame[l], 0), 3)
        /\ Bit(FrameByte(frame[l], 0), 2)
        /\ latest.Unit = "°C"
        /\ latest.Mode = ""

\* The ten 7-segment patterns of the digits 0..9 (top bit masked).
SegmentTable == <<125, 5, 91, 31, 39, 62, 126, 21, 127, 63>>

\* The pattern of digit position k (1..4) of the frame f, top bit masked.
DigitPattern(f, k) ==
    (LowNibble(FrameByte(f, 2 * k - 1)) * 16
        + LowNibble(FrameByte(f, 2 * k))) % 128

\* The pattern p is one of the table.
Recognized(p) == \E d \in 1..10 : SegmentTable[d] = p

\* Some digit of the frame f is not recognizable.
NonNumeric(f) == \E k \in 1..4 : ~Recognized(DigitPattern(f, k))

\* The frame f with every digit showing 8 (pattern 0x7f), its sign and
\* decimal-point bits as they are.
AllEights(f) ==
    [i \in 1..14 |->
        IF i \in {2, 4, 6, 8}
        THEN 16 * i + (IF Bit(f[i], 3) THEN 8 ELSE 0) + 7
        ELSE IF i \in {3, 5, 7, 9} THEN 16 * i + 15
        ELSE f[i]]

\* Loop l has Set the Measurement of its frame, and perhaps gone on.
AfterSet(l) == pc[l] \in {"push", "ok", "rtop"}

\* C17: a frame with an unrecognizable digit pattern is decoded to a
\* Measurement with no value and value_str "????", whose unit, mode, auto,
\* hold, rel and low_batt are those of the same frame with recognizable
\* digits; and it is published like any other: Set, then Push, then the
\* liveness stamp.
C17_NonNumericStillEmitted ==
    \A l \in LoopIds :
        (AfterSet(l) /\ NonNumeric(frame[l])) =>
            LET m == latest
                g == decodeFrame(AllEights(frame[l]))
            IN /\ m # Nil
               /\ m.RawHex = RawHex(frame[l])
               /\ m.Value = NoValue
               /\ m.ValueStr = "????"
               /\ g.Value # NoValue
               /\ <<m.Unit, m.Mode, m.Auto, m.Hold, m.Rel, m.LowBatt>>
                    = <<g.Unit, g.Mode, g.Auto, g.Hold, g.Rel, g.LowBatt>>
               /\ pc[l] = "rtop" => status.LastFrameAt = now

\* C17's case: a frame with a blank digit, low battery and hold has been
\* Set, pushed and stamped.
C17_Witness ==
    \E l \in LoopIds :
        /\ pc[l] = "rtop"
        /\ NonNumeric(frame[l])
        /\ latest.ValueStr = "????"
        /\ latest.LowBatt
        /\ latest.Hold
        /\ status.LastFrameAt # 0

\* The digit a recognized pattern of position k shows, and its character.
DigitOf(f, k) == CHOOSE d \in 0..9 : SegmentTable[d + 1] = DigitPattern(f, k)
CharOf(f, k) == DigitChar[DigitOf(f, k) + 1]

\* The four digits of the frame f with the point at the place of its
\* divisor (d.ddd for 1000, dd.dd for 100, ddd.d for 10, dddd for 1).
Pointed(f) ==
    CASE PointExp(f) = 3 ->
             CharOf(f, 1) \o "." \o CharOf(f, 2) \o CharOf(f, 3) \o CharOf(f, 4)
      [] PointExp(f) = 2 ->
             CharOf(f, 1) \o CharOf(f, 2) \o "." \o CharOf(f, 3) \o CharOf(f, 4)
      [] PointExp(f) = 1 ->
             CharOf(f, 1) \o CharOf(f, 2) \o CharOf(f, 3) \o "." \o CharOf(f, 4)
      [] OTHER ->
             CharOf(f, 1) \o CharOf(f, 2) \o CharOf(f, 3) \o CharOf(f, 4)

\* C18: for a frame with four recognized digits d1..d4 and no prefix flag,
\* value * divisor = sign * (1000*d1 + 100*d2 + 10*d3 + d4), the divisor being
\* 1000, 100, 10 or 1 by the decimal-point bit (the value is mant * 10^exp,
\* so mant is the signed integer and exp the divisor's negated power), and
\* value_str is the digits with the point at the place of that divisor, "-"
\* in front iff byte1 bit3 is set.  Digits 1,2,3,4 with the tenths bit, DC
\* and Volt decode to 123.4, "123.4", "V", "DC".
C18_ValueAndStringAgree ==
    \A l \in LoopIds :
        (JustSet(l) /\ ~NonNumeric(frame[l]) /\ ~AnyPrefix(frame[l])) =>
            LET f == frame[l]
                m == latest
                neg == Bit(FrameByte(f, 1), 3)
                n == 1000 * DigitOf(f, 1) + 100 * DigitOf(f, 2)
                       + 10 * DigitOf(f, 3) + DigitOf(f, 4)
            IN /\ m.Value # NoValue
               /\ m.Value.mant = (IF neg THEN -1 ELSE 1) * n
               /\ m.Value.exp = 0 - PointExp(f)
               /\ m.ValueStr = (IF neg THEN "-" ELSE "") \o Pointed(f)
               /\ f = VoltFrame =>
                     /\ m.Value = [mant |-> 1234, exp |-> -1]
                     /\ m.ValueStr = "123.4"
                     /\ m.Unit = "V"
                     /\ m.Mode = "DC"

\* C18's case: a negative reading with the hundredths point.
C18_Witness ==
    \E l \in LoopIds :
        /\ JustSet(l)
        /\ latest.Value = [mant |-> -1234, exp |-> -2]
        /\ latest.ValueStr = "-12.34"

\* The argument of the i-th Set call to return; absent for i = 0.
ValueAt(i) == IF i = 0 THEN Nil ELSE completed[i]

\* C19: LatestBuffer is a last-write-wins single slot.  Whenever no Set
\* holds the mutex the slot holds the argument of the most recently
\* completed Set (absent before the first); a Get reads exactly that; and
\* what a Get returns is never older than the last Set that had completed
\* when the Get was called.
C19_LastWriteWins ==
    /\ mu.writer = 0 => latest = ValueAt(Len(completed))
    /\ \A g \in Getters :
          /\ getter[g].pc = "runlock" =>
                getter[g].res = ValueAt(Len(completed))
          /\ getter[g].pc \in {"runlock", "returned"} =>
                \E i \in getter[g].seen .. Len(completed) :
                    getter[g].res = ValueAt(i)

\* C19's case: a Get called after the second Set had completed has returned
\* that Set's argument, while a third Set has written and not yet returned.
C19_Witness ==
    \E g \in Getters, c \in Setters :
        /\ getter[g].pc = "returned"
        /\ getter[g].seen = 2
        /\ getter[g].res = completed[2]
        /\ setter[c].pc = "unlock"

\* C20: /api/live answers with a Measurement only if its GetReaderStatus()
\* returned connected = true and its GetLatest() returned a Measurement, the
\* one it sends; in every other case it answers 204 No Content with no
\* value.
C20_LiveSuppressedWhenDisconnected ==
    \A r \in Requests :
        live[r].pc = "done" =>
            /\ live[r].resp \in {NoContent, SendJSON(live[r].m)}
            /\ live[r].resp # NoContent <=>
                  (live[r].st.Connected /\ live[r].m # Nil)

\* C20's case: a Measurement has been Set, the reader is not connected (the
\* frame is not yet stamped), and the request has been answered 204.
C20_Witness ==
    \E r \in Requests :
        /\ live[r].pc = "done"
        /\ ~live[r].st.Connected
        /\ latest # Nil
        /\ live[r].resp = NoContent

\* C21: for each completed frame the loop performs, in this order and
\* before it examines the next byte, latest.Set, the sink's Push, and the
\* liveness callback that sets last_frame_at = now and clears last_error;
\* hence whenever last_frame_at carries a frame's stamp, LatestBuffer holds
\* a Measurement (that frame's or a newer one).
C21_PublicationOrder ==
    [][/\ \A l \in LoopIds :
             /\ (pc[l] = "set" /\ pc'[l] # "set") =>
                    /\ pc'[l] = "push"
                    /\ latest' = Decoded(l)
                    /\ status' = status
                    /\ <<idx'[l], frame'[l], tmp'[l]>>
                         = <<idx[l], frame[l], tmp[l]>>
             /\ (pc[l] = "push" /\ pc'[l] # "push") =>
                    /\ pc'[l] = "ok"
                    /\ latest' = latest
                    /\ status' = status
                    /\ <<idx'[l], frame'[l], tmp'[l]>>
                         = <<idx[l], frame[l], tmp[l]>>
             /\ (pc[l] = "ok" /\ pc'[l] # "ok") =>
                    /\ status'.LastFrameAt = now
                    /\ status'.LastError = ""
                    /\ latest' = latest
       /\ status'.LastFrameAt # status.LastFrameAt =>
             \E l \in LoopIds : pc[l] = "ok" /\ pc'[l] # "ok"
       /\ status'.LastFrameAt # 0 => latest' # Nil]_vars

\* C21's case: a second frame has been stamped, later than the first, and
\* LatestBuffer holds a Measurement.
C21_Witness ==
    /\ status.LastFrameAt > 1
    /\ acceptedAt = status.LastFrameAt
    /\ latest # Nil
    /\ \E l \in LoopIds : pc[l] = "rtop"

\* Loop l is in one of its two backoff waits.
Waiting(l) == pc[l] \in {"wait600", "wait400"}

\* C22: between two consecutive open attempts of a loop there is a wait,
\* the 600 ms one after an open failure and the 400 ms one after a stream
\* failure (an open attempt starts only from the top of the loop, and the
\* top is reached only at launch or from a wait); and a loop whose context
\* is cancelled during a wait terminates without another open attempt.
C22_BackoffHonorsCancel ==
    [][\A l \in LoopIds :
          pc'[l] # pc[l] =>
              /\ pc'[l] = "open" => pc[l] = "top"
              /\ pc'[l] = "top" => (pc[l] = "none" \/ Waiting(l))
              /\ pc[l] = "open" => pc'[l] \in {"wait600", "rtop"}
              /\ pc'[l] = "wait600" => pc[l] = "open"
              /\ pc'[l] = "wait400" => pc[l] = "after"
              /\ pc'[l] = "after" => pc[l] \in {"rtop", "read"}
              /\ (ctxDone[l] /\ Waiting(l)) => pc'[l] \in {"ret", "top"}
              /\ (ctxDone[l] /\ pc[l] = "top") => pc'[l] = "ret"]_vars

\* C22's case: the context of a loop is cancelled while the loop is in its
\* 400 ms wait after a stream failure (the loop enters that wait only with
\* its context not cancelled).
C22_Witness ==
    \E l \in LoopIds :
        /\ ctxDone[l]
        /\ pc[l] = "wait400"
        /\ ~handle[l]

\* C23: a read that returns 0 bytes and no error changes nothing: the loop
\* stays in Streaming (back at the top of the read loop) with the same open
\* handle, and the cursor, the partial frame, LatestBuffer and the status
\* are as they were.
C23_ZeroReadChangesNothing ==
    [][\A l \in LoopIds :
          ReadZero(l) =>
              /\ pc'[l] = "rtop"
              /\ handle[l] /\ handle'[l]
              /\ idx'[l] = idx[l]
              /\ frame'[l] = frame[l]
              /\ latest' = latest
              /\ status' = status
              /\ ret' = ret]_vars

\* C23's case: a loop with half a frame in its buffer (cursor 7) is back at
\* the top of the read loop, its port open and the device sending.
C23_Witness ==
    \E l \in LoopIds :
        /\ pc[l] = "rtop"
        /\ idx[l] = 7
        /\ handle[l]
        /\ dev = "sending"
        /\ latest # Nil

\* The 14 positional tags 0x10, 0x20, ..., 0xE0.
Tags == {16 * k : k \in 1..14}

\* C24: after every byte of any stream the synchronizer cursor is within
\* 0..13 (it is reset to 0 in the step in which it reaches 14), so the frame
\* buffer keeps its 14 places, the place a matching byte is written to is
\* one of them, and the expected tag (cursor + 1) << 4 is one of 0x10..0xE0.
C24_CursorInRange ==
    /\ sidx \in 0..13
    /\ DOMAIN sframe = 1..14
    /\ sidx + 1 \in DOMAIN sframe
    /\ ((sidx + 1) * 16) % 256 \in Tags

\* C24's case: the cursor has just reached 14 and is back at 0, a frame has
\* been emitted at this byte, and more bytes follow.
C24_Witness ==
    /\ sidx = 0
    /\ emitted # <<>>
    /\ emitted[Len(emitted)].at = fed
    /\ fed < Len(input.bytes)

\* The target the status names.
CurrentTarget(st) == <<st.Port, st.Baud>>

\* C25: the liveness callback stamps last_frame_at only for a frame read by
\* a loop whose port and baud are the status's current ones, and a Start
\* that changes the target leaves no GetStatus with connected = true resting
\* on a frame of the previous port.
C25_StampFromCurrentTarget ==
    [][/\ \A l \in LoopIds :
             OnFrameOK(l) => target[l] = CurrentTarget(status)
       /\ (launched' # launched
            /\ CurrentTarget(status') # CurrentTarget(status))
              => ~[status' EXCEPT !.Connected =
                       (status'.LastFrameAt # 0
                        /\ now' - status'.LastFrameAt <= staleAfter'
                        /\ status'.LastError = "")].Connected]_vars

\* The contexts made by Start so far whose cancel function was not called.
Uncancelled == {l \in 1..launched : ~ctxDone[l]}

\* C26: at most one un-cancelled loop context exists per Manager: every
\* context made by an earlier Start has been cancelled, the one that may be
\* un-cancelled is the one m.cancel holds (so it can still be cancelled),
\* and after Stop none is left.
C26_OneLiveContext ==
    /\ Cardinality(Uncancelled) <= 1
    /\ \A l \in 1..launched : l < launched => ctxDone[l]
    /\ \A l \in Uncancelled : cancel = l /\ running
    /\ ~running => Uncancelled = {}

\* C26's case: a second Start replaced a context whose loop is still
\* going; the old context is cancelled, the new one is not.
C26_Witness ==
    /\ launched = 2
    /\ Active(1)
    /\ ctxDone[1]
    /\ Uncancelled = {2}

\* The prefix letters and the power of ten each stands for.
Letters ==
    { [letter |-> "n", exp |-> -9], [letter |-> "µ", exp |-> -6],
      [letter |-> "m", exp |-> -3], [letter |-> "",  exp |-> 0],
      [letter |-> "k", exp |-> 3],  [letter |-> "M", exp |-> 6] }

\* C27: the prefix letter of the unit matches the scale applied to the
\* value: for a base unit that takes a prefix (F, Ohm, A, V, Hz) the unit is
\* a letter of n, µ, m, k, M or none before the base unit and the value was
\* scaled by that letter's factor (1e-9, 1e-6, 1e-3, 1e3, 1e6 or 1); for %,
\* °C and the empty unit no letter is added.
C27_LetterMatchesScale ==
    \A l \in LoopIds :
        JustSet(l) =>
            LET f == frame[l]
                m == latest
            IN IF BaseUnit(f) \in Bare
               THEN m.Unit = BaseUnit(f)
               ELSE \E p \in Letters :
                       /\ m.Unit = p.letter \o BaseUnit(f)
                       /\ (m.Value # NoValue /\ m.Value.mant # 0) =>
                              m.Value.exp + PointExp(f) = p.exp

\* C28: the measurement sink is safe against concurrent control: when Push
\* runs concurrently with the logger's Start or Stop, every csv.Write and
\* csv.Flush of Push goes to a writer that is not nil and whose file is not
\* closed, and a row is written only while the logger is active.
C28_PushSafeAgainstControl ==
    [][/\ PushWrite => /\ logger.active
                       /\ logger.csv # 0
                       /\ logger.csv \notin files.closed
       /\ PushFlush => /\ logger.csv # 0
                       /\ logger.csv \notin files.closed]_vars

=============================================================================
